---- MODULE Spec2Model ----
(***************************************************************************)
(* Model of the arena_api example scripts of transmitter_alignment:        *)
(*   - the depth colour map  get_rgb_colors_of_point_at_distance           *)
(*   - the buffer colourisers get_a_BGR8_distance_heatmap_ctype_array and  *)
(*     get_a_RGB_colring_ctype_array                                       *)
(*   - the acquisition sessions of py_acquisition, py_helios_heatmap,      *)
(*     py_save_recorder, py_save_writer_png and 1_acquire_and_extract      *)
(*     against a device collaborator (arena_api.system / Device).          *)
(***************************************************************************)
EXTENDS Integers, Sequences, FiniteSets, TLC

VARIABLES
    \* ---- colour map (pure function under test)
    cpc,            \* "call" before, "ret" after get_rgb_colors_of_point_at_distance
    z_arg,          \* the argument z
    rgb,            \* the returned (red, green, blue)
    \* ---- buffer colourisers
    fpc,            \* position inside the two colouriser calls
    width,          \* buffer_3d.width
    height,         \* buffer_3d.height
    pixel_format,   \* buffer_3d.pixel_format
    pdata,          \* the buffer's memory as 16-bit words, 0-based
    scale_z,        \* Scan3dCoordinateScale as a ratio [num, den]
    buffer_3d_pixel_index,
    array_pixel_index,
    loop_count,     \* iterations of "for _ in range(number_of_pixels)" done
    array_BGR8_for_jpg,
    array_RGB8_for_ply_coloring,
    garbage,        \* what the memory past the end of the buffer holds
    \* ---- acquisition session
    script,         \* the script that runs
    pc,             \* "try", "sleep" (discovery), "run" (the body), "done"
    ip,             \* the instruction of the body that runs next
    tries,          \* tries of the discovery loop
    sec_count,      \* seconds slept in the current try
    devices,        \* whether the last create_device() found a device
    outcome,        \* "running", "finished", "raised", "returned", "exited"
    node,           \* the device's and the stream's node values
    node0,          \* the node values when the script started
    saved,          \* the *_initial locals of the script
    streaming,      \* the collaborator is streaming
    pool,           \* buffers the stream was started with
    held,           \* buffers obtained and not yet requeued
    buffers,        \* the script's buffer / buffers local
    obtained,       \* buffers handed out so far
    requeued,       \* buffers requeued so far
    count,          \* the recorder loop's count
    recorder,       \* "none", "open", "closed"
    isHelios2,      \* the module flag of py_helios_heatmap
    device_model,   \* DeviceModelName of the connected device
    log,            \* the collaborator calls made, in order
    sleeps          \* one-second sleeps so far

colorVars == <<cpc, z_arg, rgb>>
heatVars == <<fpc, width, height, pixel_format, pdata, scale_z,
              buffer_3d_pixel_index, array_pixel_index, loop_count,
              array_BGR8_for_jpg, array_RGB8_for_ply_coloring, garbage>>

(***************************************************************************)
(* Program constants of py_helios_heatmap.py                               *)
(***************************************************************************)
RGB_MIN == 0
RGB_MAX == 255
COLOR_BORDER_RED == 0
COLOR_BORDER_YELLOW_off == 375 + 1
COLOR_BORDER_YELLOW == 375
COLOR_BORDER_GREEN == 750
COLOR_BORDER_CYAN == 1125
COLOR_BORDER_BLUE == 1500

(***************************************************************************)
(* Bounds of the model                                                     *)
(***************************************************************************)
\* how far beyond the signed 16-bit range the colour map's argument is drawn
ZBeyond == 40000

\* largest width and height of a generated depth buffer
MaxWidth == 2
MaxHeight == 2
\* the generated buffers: word i is Words[(seed + i * stride) mod K]
MaxSeed == 6
MaxStride == 2
\* Width.max and Height.max of the device
SensorMax == 2

Int16Min == -32768
Int16Max == 32767

(***************************************************************************)
(* int(n / d) for d > 0: Python's int() truncates towards zero.  Over the  *)
(* integer arguments used here the double-precision evaluation of          *)
(* RGB_MAX * (x / 375) and RGB_MAX - RGB_MAX * (x / 375) truncates to the  *)
(* same integer as the exact ratio.                                        *)
(***************************************************************************)
IntOfRatio(n, d) == IF n >= 0 THEN n \div d ELSE -((-n) \div d)

\* int(RGB_MAX * (d / COLOR_BORDER_YELLOW))
Rising_unscaled(d) == RGB_MAX * d
Rising(d) == IntOfRatio(RGB_MAX * d, COLOR_BORDER_YELLOW)

\* int(RGB_MAX - (RGB_MAX * (d / COLOR_BORDER_YELLOW)))
Falling_rising(d) == Rising(d)
Falling(d) ==
    IntOfRatio(RGB_MAX * COLOR_BORDER_YELLOW - RGB_MAX * d, COLOR_BORDER_YELLOW)

\* the band tests of the if / elif chain
InRedYellow(z) == COLOR_BORDER_RED <= z /\ z < COLOR_BORDER_YELLOW
InYellowGreen(z) == COLOR_BORDER_YELLOW <= z /\ z < COLOR_BORDER_GREEN
InGreenCyan(z) == COLOR_BORDER_GREEN <= z /\ z < COLOR_BORDER_CYAN
InCyanBlue_open(z) == COLOR_BORDER_CYAN <= z /\ z < COLOR_BORDER_BLUE
InCyanBlue(z) == COLOR_BORDER_CYAN <= z /\ z <= COLOR_BORDER_BLUE

get_rgb_colors_of_point_at_distance(z) ==
    IF InRedYellow(z)
    THEN <<RGB_MAX, Rising(z), RGB_MIN>>
    ELSE IF InYellowGreen(z)
    THEN <<Falling(z - COLOR_BORDER_YELLOW), RGB_MAX, RGB_MIN>>
    ELSE IF InGreenCyan(z)
    THEN <<RGB_MIN, RGB_MAX, Rising(z - COLOR_BORDER_GREEN)>>
    ELSE IF InCyanBlue(z)
    THEN <<RGB_MIN, Falling(z - COLOR_BORDER_CYAN), RGB_MAX>>
    ELSE <<RGB_MIN, RGB_MIN, RGB_MIN>>

(***************************************************************************)
(* Specification SpecColor: the colour map applied to one argument         *)
(***************************************************************************)
ZDomain == (Int16Min - ZBeyond) .. (Int16Max + ZBeyond)

ColorIdle == cpc = "idle" /\ z_arg = 0 /\ rgb = <<>>

InitColorCall ==
    /\ cpc = "call"
    /\ z_arg \in ZDomain
    /\ rgb = <<>>

CallColor ==
    /\ cpc = "call"
    /\ rgb' = get_rgb_colors_of_point_at_distance(z_arg)
    /\ cpc' = "ret"
    /\ UNCHANGED z_arg

(***************************************************************************)
(* The buffer colourisers.  buffer_3d.pdata is cast to POINTER(c_int16):   *)
(* every channel is read as a signed 16-bit word whatever the pixel        *)
(* format says, and nothing checks the pixel format or the buffer's size.  *)
(***************************************************************************)
DepthFormats == {"Coord3D_ABCY16", "Coord3D_ABCY16s"}
PixelFormats == DepthFormats \cup {"BGR8"}

\* representative 16-bit words (raw, unsigned view)
Words == <<0, 1500, 6000, 3000, 65535, 32768, 700, 1000>>
WordAt(k) == Words[(k % Len(Words)) + 1]

\* ctypes.c_int16: the signed reading of a 16-bit word
AsInt16(w) == IF w > Int16Max THEN w - 65536 ELSE w

\* ctypes.c_byte element assignment keeps the low 8 bits, read back signed
AsCByte_saturating(c) == IF c > 127 THEN 127 ELSE c
AsCByte(c) == IF c % 256 >= 128 THEN (c % 256) - 256 ELSE c % 256
\* ctypes.POINTER(c_ubyte) view of a c_byte element
AsUByte(b) == b % 256

\* 16-bit words the buffer's memory really holds
Coord3D_ABCY16_channels_per_pixel == 4
BufferWords(w, h, fmt) ==
    IF fmt \in DepthFormats
    THEN Coord3D_ABCY16_channels_per_pixel * w * h
    ELSE (3 * w * h) \div 2

number_of_pixels == width * height

\* z = pdata_16bit[buffer_3d_pixel_index + 2]
ZChannelIndex_y(base) == base + 1
ZChannelIndex(base) == base + 2

\* whether index idx lies inside the buffer's memory
InBuffer(idx) == idx \in DOMAIN pdata

\* the word the cast pointer yields at idx: the buffer's, or whatever lies
\* behind the buffer
WordRead(idx) == IF InBuffer(idx) THEN pdata[idx] ELSE WordAt(garbage + idx)

\* z = int(z * scale_z)
ScaleZ(zraw) == IntOfRatio(zraw * scale_z[1], scale_z[2])

\* BGR8_pixel_size_bytes = BGR8_channel_size_bits * BGR8_channels_per_pixel
BGR8_channels_per_pixel == 3
BGR8_channel_size_bits == 8
BGR8_pixel_size_bytes == BGR8_channel_size_bits * BGR8_channels_per_pixel
array_BGR8_size_in_bytes == BGR8_pixel_size_bytes * number_of_pixels

\* the order in which one pixel's channels are stored
BGROrder(red, green, blue) == <<blue, green, red>>
RGBOrder_asBGR(red, green, blue) == <<blue, green, red>>
RGBOrder(red, green, blue) == <<red, green, blue>>
\* the channel order of the coloriser named order
Ordered(order, c) ==
    IF order = "BGR" THEN BGROrder(c[1], c[2], c[3]) ELSE RGBOrder(c[1], c[2], c[3])

\* array[i], array[i+1], array[i+2] = t
Store3(array, i, t) ==
    [array EXCEPT ![i] = AsCByte(t[1]),
                  ![i + 1] = AsCByte(t[2]),
                  ![i + 2] = AsCByte(t[3])]

NewArray(size) == [i \in 0 .. (size - 1) |-> 0]

\* some read of the loop falls outside the buffer's memory
ReadsPastBuffer ==
    \E i \in 0 .. (number_of_pixels - 1) :
        ~InBuffer(ZChannelIndex(Coord3D_ABCY16_channels_per_pixel * i))

HeatIdle ==
    /\ fpc = "idle" /\ width = 0 /\ height = 0 /\ pixel_format = "none"
    /\ pdata = <<>> /\ scale_z = <<1, 1>>
    /\ buffer_3d_pixel_index = 0 /\ array_pixel_index = 0 /\ loop_count = 0
    /\ array_BGR8_for_jpg = <<>> /\ array_RGB8_for_ply_coloring = <<>>
    /\ garbage = 0

\* Scan3dCoordinateScale values, as ratios; 0.25 (the Writer's default scale)
\* and 1.0 are exact in binary floating point, so z * scale_z is exact
Scales == {<<1, 4>>, <<1, 1>>}

InitHeatCall ==
    /\ fpc = "bgr_entry"
    /\ width \in 1 .. MaxWidth
    /\ height \in 1 .. MaxHeight
    /\ pixel_format \in PixelFormats
    /\ \E seed \in 0 .. MaxSeed, stride \in 1 .. MaxStride :
          pdata = [i \in 0 .. (BufferWords(width, height, pixel_format) - 1)
                      |-> WordAt(seed + i * stride)]
    /\ scale_z \in Scales
    /\ buffer_3d_pixel_index = 0 /\ array_pixel_index = 0 /\ loop_count = 0
    /\ array_BGR8_for_jpg = <<>> /\ array_RGB8_for_ply_coloring = <<>>
    /\ garbage = 0

\* lines 140-182 and 216-258: sizes, the output array, the two indices
FnEnter(from, to) ==
    /\ fpc = from
    /\ fpc' = to
    /\ buffer_3d_pixel_index' = 0
    /\ array_pixel_index' = 0
    /\ loop_count' = 0
    /\ garbage' \in (IF ReadsPastBuffer THEN 0 .. MaxSeed ELSE {0})
    /\ UNCHANGED <<width, height, pixel_format, pdata, scale_z>>

\* one iteration of "for _ in range(number_of_pixels)"
Iterate(at, array, order) ==
    /\ fpc = at
    /\ loop_count < number_of_pixels
    /\ LET c == get_rgb_colors_of_point_at_distance(
                   ScaleZ(AsInt16(WordRead(ZChannelIndex(buffer_3d_pixel_index)))))
       IN  array' = Store3(array, array_pixel_index, Ordered(order, c))
    /\ buffer_3d_pixel_index' =
          buffer_3d_pixel_index + Coord3D_ABCY16_channels_per_pixel
    /\ array_pixel_index' = array_pixel_index + BGR8_channels_per_pixel
    /\ loop_count' = loop_count + 1
    /\ UNCHANGED <<fpc, width, height, pixel_format, pdata, scale_z, garbage>>

\* a read past the end of the buffer's memory may also kill the process
Segfault(at) ==
    /\ fpc = at
    /\ loop_count < number_of_pixels
    /\ ~InBuffer(ZChannelIndex(buffer_3d_pixel_index))
    /\ fpc' = "segfault"
    /\ UNCHANGED <<width, height, pixel_format, pdata, scale_z, garbage,
                   buffer_3d_pixel_index, array_pixel_index, loop_count,
                   array_BGR8_for_jpg, array_RGB8_for_ply_coloring>>

FnReturn(from, to) ==
    /\ fpc = from
    /\ loop_count = number_of_pixels
    /\ fpc' = to
    /\ UNCHANGED <<width, height, pixel_format, pdata, scale_z, garbage,
                   buffer_3d_pixel_index, array_pixel_index, loop_count,
                   array_BGR8_for_jpg, array_RGB8_for_ply_coloring>>

BGR_Enter ==
    /\ FnEnter("bgr_entry", "bgr_loop")
    /\ array_BGR8_for_jpg' = NewArray(array_BGR8_size_in_bytes)
    /\ UNCHANGED array_RGB8_for_ply_coloring

BGR_Iterate ==
    /\ Iterate("bgr_loop", array_BGR8_for_jpg, "BGR")
    /\ UNCHANGED array_RGB8_for_ply_coloring

BGR_Segfault == Segfault("bgr_loop")

BGR_Return == FnReturn("bgr_loop", "rgb_entry")

RGB_Enter ==
    /\ FnEnter("rgb_entry", "rgb_loop")
    /\ array_RGB8_for_ply_coloring' = NewArray(array_BGR8_size_in_bytes)
    /\ UNCHANGED array_BGR8_for_jpg

RGB_Iterate ==
    /\ Iterate("rgb_loop", array_RGB8_for_ply_coloring, "RGB")
    /\ UNCHANGED array_BGR8_for_jpg

RGB_Segfault == Segfault("rgb_loop")

RGB_Return == FnReturn("rgb_loop", "done")

(***************************************************************************)
(* The acquisition sessions.  One script runs against the collaborator     *)
(* (arena_api.system and the selected Device).                             *)
(***************************************************************************)
Scripts ==
    {"py_acquisition", "py_helios_heatmap", "py_save_recorder",
     "py_save_writer_png", "1_acquire_and_extract"}

\* tries_max and sleep_time_secs of each script's discovery function
tries_max_py_acquisition == 6
tries_max_py_helios_heatmap == 1
tries_max_py_save_recorder == 5
tries_max_py_save_writer_png == 6
tries_max_1_acquire_and_extract == 6
sleep_time_secs == 10

tries_max ==
    CASE script = "py_acquisition" -> tries_max_py_acquisition
      [] script = "py_helios_heatmap" -> tries_max_py_helios_heatmap
      [] script = "py_save_recorder" -> tries_max_py_save_recorder
      [] script = "py_save_writer_png" -> tries_max_py_save_writer_png
      [] script = "1_acquire_and_extract" -> tries_max_1_acquire_and_extract

\* number_of_buffers, start_stream's default, TOTAL_IMAGES
number_of_buffers == 20
start_stream_default == 10
recorder_buffers == 100
heatmap_buffers == 1
TOTAL_IMAGES_fewer == 100 - 1
TOTAL_IMAGES == 100

\* ---- the device's configuration nodes
Keys ==
    {"AcquisitionMode", "Width", "Height", "PixelFormat",
     "Scan3dOperatingMode", "Scan3dCoordinateSelector",
     "StreamBufferHandlingMode", "StreamAutoNegotiatePacketSize",
     "StreamPacketResendEnable"}

\* nodes[k].max of Width and Height
NodeMax(k) == SensorMax

Values(k) ==
    CASE k = "AcquisitionMode" -> {"Continuous", "SingleFrame"}
      [] k = "Width" -> 1 .. SensorMax
      [] k = "Height" -> 1 .. SensorMax
      [] k = "PixelFormat" -> {"Coord3D_ABCY16", "BGR8", "Coord3D_ABCY16s"}
      [] k = "Scan3dOperatingMode" ->
            {"Distance1500mm", "Distance3000mmSingleFreq", "Distance6000mm"}
      [] k = "Scan3dCoordinateSelector" -> {"CoordinateA", "CoordinateC"}
      [] k = "StreamBufferHandlingMode" -> {"OldestFirst", "NewestOnly"}
      [] k = "StreamAutoNegotiatePacketSize" -> BOOLEAN
      [] k = "StreamPacketResendEnable" -> BOOLEAN

Default(k) == CHOOSE v \in Values(k) : TRUE

\* ---- the connected device: its model name and the nodes it lacks
DeviceModels == {"HLT003S", "HTP003S", "HLS003S", "HLS003S_old", "PHX050S"}
HasNode(model, k) ==
    CASE k = "Scan3dOperatingMode" -> model # "PHX050S"
      [] k = "Scan3dCoordinateOffset" -> model \notin {"PHX050S", "HLS003S_old"}
      [] OTHER -> TRUE
\* 'HTP' in device_model_name_node
ContainsHTP(model) == model = "HTP003S"
\* truth value of a str
Truthy(str) == str # ""
\* 'HLT' or 'HTP' in device_model_name_node
IsHelios2Test_by_name(model) == model = "HLT003S" \/ ContainsHTP(model)
IsHelios2Test(model) == Truthy("HLT") \/ ContainsHTP(model)

\* ---- the scripts after discovery, one instruction per collaborator call
Ins(op, key, val) == [op |-> op, key |-> key, val |-> val]
Select == Ins("select_device", "", "")
Set(k, v) == Ins("write", k, v)
SetMax(k) == Ins("write_max", k, "")
Save(ks) == Ins("save", "", ks)
Restore(k) == Ins("restore", k, "")
Start(n) == Ins("start_stream", "", n)
Get_more(n) == Ins("get_buffer", "", n + 1)
Get(n) == Ins("get_buffer", "", n)
Use(what) == Ins("use", what, "")
Requeue_omitted == Use("nothing")
Stop_omitted == Use("nothing")
Requeue ==Ins("requeue_buffer", "", "")
Stop == Ins("stop_stream", "", "")
Destroy == Ins("destroy_device", "", "")
Ret == Ins("return", "", "")

Program_py_acquisition ==
    << Select,
       Save({"Width", "Height", "AcquisitionMode"}),
       Set("AcquisitionMode", "Continuous"),
       Set("StreamBufferHandlingMode", "NewestOnly"),
       Set("StreamAutoNegotiatePacketSize", TRUE),
       Set("StreamPacketResendEnable", TRUE),
       SetMax("Width"),
       SetMax("Height"),
       Start(number_of_buffers),
       Get(number_of_buffers),
       Requeue,
       Stop,
       Restore("AcquisitionMode"),
       Restore("Width"),
       Restore("Height"),
       Destroy,
       Ret >>

Program_py_helios_heatmap ==
    << Select,
       Ins("validate_device", "", ""),
       Set("StreamAutoNegotiatePacketSize", TRUE),
       Set("StreamPacketResendEnable", TRUE),
       Save({"PixelFormat", "Scan3dOperatingMode"}),
       Set("PixelFormat", "Coord3D_ABCY16"),
       Ins("write_operating_mode", "Scan3dOperatingMode", ""),
       Set("Scan3dCoordinateSelector", "CoordinateC"),
       Start(heatmap_buffers),
       Get(1),
       Use("heatmap.jpg"),
       Use("heatmap.ply"),
       Requeue,
       Stop,
       Restore("PixelFormat"),
       Restore("Scan3dOperatingMode"),
       Destroy,
       Ret >>

Program_py_save_recorder ==
    << Ins("if_not_devices_return", "", ""),
       Select,
       Set("StreamAutoNegotiatePacketSize", TRUE),
       Set("StreamPacketResendEnable", TRUE),
       Set("PixelFormat", "BGR8"),
       Start(recorder_buffers),
       Ins("recorder_open", "", ""),
       Ins("for", "", 13),
       Get(1),
       Ins("recorder_append", "", ""),
       Requeue,
       Ins("endfor", "", 8),
       Ins("recorder_close", "", ""),
       Stop,
       Destroy,
       Ret >>

Program_py_save_writer_png ==
    << Select,
       Set("StreamAutoNegotiatePacketSize", TRUE),
       Set("StreamPacketResendEnable", TRUE),
       Start(start_stream_default),
       Get(1),
       Use("image.png"),
       Requeue,
       Stop,
       Destroy,
       Ret >>

Program_1_acquire_and_extract ==
    << Select,
       Start(start_stream_default),
       Get(1),
       Use("acquired_image.png"),
       Requeue,
       Stop,
       Ret >>

ProgramOf(s) ==
    CASE s = "py_acquisition" -> Program_py_acquisition
      [] s = "py_helios_heatmap" -> Program_py_helios_heatmap
      [] s = "py_save_recorder" -> Program_py_save_recorder
      [] s = "py_save_writer_png" -> Program_py_save_writer_png
      [] s = "1_acquire_and_extract" -> Program_1_acquire_and_extract

Program == ProgramOf(script)

\* the keys a script writes
WrittenKeys(s) ==
    {ProgramOf(s)[i].key :
        i \in {j \in 1 .. Len(ProgramOf(s)) :
                 ProgramOf(s)[j].op \in
                    {"write", "write_max", "write_operating_mode", "restore"}}}

sessVars == <<script, pc, ip, tries, sec_count, devices, outcome, node, node0,
              saved, streaming, pool, held, buffers, obtained, requeued, count,
              recorder, isHelios2, device_model, log, sleeps>>

SessIdle ==
    /\ script = "none" /\ pc = "idle" /\ ip = 0 /\ tries = 0 /\ sec_count = 0
    /\ devices = FALSE /\ outcome = "idle" /\ node = <<>> /\ node0 = <<>>
    /\ saved = <<>> /\ streaming = FALSE /\ pool = 0 /\ held = {}
    /\ buffers = {} /\ obtained = 0 /\ requeued = 0 /\ count = 0
    /\ recorder = "none" /\ isHelios2 = FALSE /\ device_model = "none"
    /\ log = <<>> /\ sleeps = 0

\* the values a node may hold when the script starts: any, for the keys the
\* script touches
InitialValues(s, k) == IF k \in WrittenKeys(s) THEN Values(k) ELSE {Default(k)}

InitSession ==
    /\ script \in Scripts
    /\ pc = "try" /\ ip = 0
    /\ tries = 0 /\ sec_count = 0 /\ devices = FALSE
    /\ outcome = "running"
    /\ node0 \in [AcquisitionMode : InitialValues(script, "AcquisitionMode"),
                  Width : InitialValues(script, "Width"),
                  Height : InitialValues(script, "Height"),
                  PixelFormat : InitialValues(script, "PixelFormat"),
                  Scan3dOperatingMode :
                      InitialValues(script, "Scan3dOperatingMode"),
                  Scan3dCoordinateSelector :
                      InitialValues(script, "Scan3dCoordinateSelector"),
                  StreamBufferHandlingMode :
                      InitialValues(script, "StreamBufferHandlingMode"),
                  StreamAutoNegotiatePacketSize :
                      InitialValues(script, "StreamAutoNegotiatePacketSize"),
                  StreamPacketResendEnable :
                      InitialValues(script, "StreamPacketResendEnable")]
    /\ node = node0
    /\ saved = <<>>
    /\ streaming = FALSE /\ pool = 0 /\ held = {} /\ buffers = {}
    /\ obtained = 0 /\ requeued = 0 /\ count = 0
    /\ recorder = "none"
    /\ isHelios2 = FALSE
    /\ device_model \in
          (IF script = "py_helios_heatmap" THEN DeviceModels ELSE {"PHX050S"})
    /\ log = <<>> /\ sleeps = 0

Call(name, arg) == log' = Append(log, <<name, arg>>)

\* ---- create_devices_with_tries / create_device_with_tries /
\* ---- update_create_devices

\* while tries < tries_max
LoopContinues_le(t, max) == t <= max
LoopContinues(t, max) == t < max

\* devices = system.create_device(); "if not devices" holds
CreateDevice_Empty ==
    /\ pc = "try"
    /\ LoopContinues(tries, tries_max)
    /\ Call("create_device", "empty")
    /\ devices' = FALSE
    /\ sec_count' = 0
    /\ pc' = "sleep"
    /\ UNCHANGED <<script, ip, tries, outcome, node, node0, saved, streaming,
                   pool, held, buffers, obtained, requeued, count, recorder,
                   isHelios2, device_model, sleeps>>

\* for sec_count in range(sleep_time_secs)
SleepContinues_short(sec) == sec < sleep_time_secs - 1
SleepContinues(sec) == sec < sleep_time_secs

\* for sec_count in range(sleep_time_secs): time.sleep(1)
SleepOneSecond ==
    /\ pc = "sleep"
    /\ SleepContinues(sec_count)
    /\ sleeps' = sleeps + 1
    /\ sec_count' = sec_count + 1
    /\ UNCHANGED <<script, pc, ip, tries, devices, outcome, node, node0, saved,
                   streaming, pool, held, buffers, obtained, requeued, count,
                   recorder, isHelios2, device_model, log>>

\* tries += 1
NextTry ==
    /\ pc = "sleep"
    /\ ~SleepContinues(sec_count)
    /\ tries' = tries + 1
    /\ pc' = "try"
    /\ UNCHANGED <<script, ip, sec_count, devices, outcome, node, node0, saved,
                   streaming, pool, held, buffers, obtained, requeued, count,
                   recorder, isHelios2, device_model, log, sleeps>>

\* devices = system.create_device(); devices is not empty: return devices
CreateDevice_Found ==
    /\ pc = "try"
    /\ LoopContinues(tries, tries_max)
    /\ Call("create_device", "found")
    /\ devices' = TRUE
    /\ pc' = "run"
    /\ ip' = 1
    /\ UNCHANGED <<script, tries, sec_count, outcome, node, node0, saved,
                   streaming, pool, held, buffers, obtained, requeued, count,
                   recorder, isHelios2, device_model, sleeps>>

\* whether the while's else branch of script s prints and returns instead of
\* raising
ReturnsNone_never(s) == FALSE
ReturnsNone(s) == s = "py_save_recorder"

\* the while's else branch: raise Exception('No device found! ...')
NoDevice_Raise ==
    /\ pc = "try"
    /\ ~LoopContinues(tries, tries_max)
    /\ ~ReturnsNone(script)
    /\ outcome' = "raised"
    /\ pc' = "done"
    /\ UNCHANGED <<script, ip, tries, sec_count, devices, node, node0, saved,
                   streaming, pool, held, buffers, obtained, requeued, count,
                   recorder, isHelios2, device_model, log, sleeps>>

\* py_save_recorder's else branch: print('No device found! ...'); return
NoDevice_ReturnNone ==
    /\ pc = "try"
    /\ ~LoopContinues(tries, tries_max)
    /\ ReturnsNone(script)
    /\ pc' = "run"
    /\ ip' = 1
    /\ UNCHANGED <<script, tries, sec_count, devices, outcome, node, node0,
                   saved, streaming, pool, held, buffers, obtained, requeued,
                   count, recorder, isHelios2, device_model, log, sleeps>>

\* ---- the script's body
ins == Program[ip]
At(op) == pc = "run" /\ ins.op = op
Goto(i) == ip' = i /\ UNCHANGED pc
Advance == Goto(ip + 1)
Finish(how) == pc' = "done" /\ outcome' = how /\ UNCHANGED ip

\* "if not devices" of the entry point
NotDevices_ignored == FALSE
NotDevices == ~devices

\* devices = create_devices_with_tries(); if not devices: return
IfNotDevicesReturn ==
    /\ At("if_not_devices_return")
    /\ IF NotDevices
       THEN Finish("returned")
       ELSE Advance /\ UNCHANGED outcome
    /\ UNCHANGED <<script, tries, sec_count, devices, node, node0, saved,
                   streaming, pool, held, buffers, obtained, requeued, count,
                   recorder, isHelios2, device_model, log, sleeps>>

\* device = system.select_device(devices)
SelectDevice ==
    /\ At("select_device")
    /\ Call("select_device", "")
    /\ Advance
    /\ UNCHANGED <<script, tries, sec_count, devices, outcome, node, node0,
                   saved, streaming, pool, held, buffers, obtained, requeued,
                   count, recorder, isHelios2, device_model, sleeps>>

\* the nodes validate_device reads inside try / except KeyError: sys.exit()
ValidatedNodes_first == {"Scan3dOperatingMode"}
ValidatedNodes == {"Scan3dOperatingMode", "Scan3dCoordinateOffset"}

\* validate_device(device)
ValidateDevice ==
    /\ At("validate_device")
    /\ IF \E k \in ValidatedNodes : ~HasNode(device_model, k)
       THEN Finish("exited") /\ UNCHANGED isHelios2
       ELSE /\ isHelios2' = (IF IsHelios2Test(device_model) THEN TRUE ELSE isHelios2)
            /\ Advance /\ UNCHANGED outcome
    /\ UNCHANGED <<script, tries, sec_count, devices, node, node0, saved,
                   streaming, pool, held, buffers, obtained, requeued, count,
                   recorder, device_model, log, sleeps>>

\* x_initial = nodemap[k].value for the keys the script keeps
SaveInitial ==
    /\ At("save")
    /\ saved' = [k \in (DOMAIN saved) \cup ins.val |->
                    IF k \in ins.val THEN node[k] ELSE saved[k]]
    /\ Advance
    /\ UNCHANGED <<script, tries, sec_count, devices, outcome, node, node0,
                   streaming, pool, held, buffers, obtained, requeued, count,
                   recorder, isHelios2, device_model, log, sleeps>>

\* the value an instruction writes to its node
WrittenValue ==
    CASE ins.op = "write" -> ins.val
      [] ins.op = "write_max" -> NodeMax(ins.key)
      [] ins.op = "write_operating_mode" ->
            (IF isHelios2 = TRUE THEN "Distance3000mmSingleFreq"
                                 ELSE "Distance1500mm")
      [] ins.op = "restore" -> saved[ins.key]

\* nodemap[k].value = v, tl_stream_nodemap[k].value = v
WriteNode ==
    /\ pc = "run"
    /\ ins.op \in {"write", "write_max", "write_operating_mode", "restore"}
    /\ node' = [node EXCEPT ![ins.key] = WrittenValue]
    /\ Call("write", ins.key)
    /\ Advance
    /\ UNCHANGED <<script, tries, sec_count, devices, outcome, node0, saved,
                   streaming, pool, held, buffers, obtained, requeued, count,
                   recorder, isHelios2, device_model, sleeps>>

\* device.start_stream(n)
StartStream ==
    /\ At("start_stream")
    /\ streaming' = TRUE
    /\ pool' = ins.val
    /\ Call("start_stream", "")
    /\ Advance
    /\ UNCHANGED <<script, tries, sec_count, devices, outcome, node, node0,
                   saved, held, buffers, obtained, requeued, count, recorder,
                   isHelios2, device_model, sleeps>>

\* buffer = device.get_buffer(), buffers = device.get_buffer(n)
GetBuffer ==
    /\ At("get_buffer")
    /\ buffers' = (obtained + 1) .. (obtained + ins.val)
    /\ held' = held \cup buffers'
    /\ obtained' = obtained + ins.val
    /\ Call("get_buffer", "")
    /\ Advance
    /\ UNCHANGED <<script, tries, sec_count, devices, outcome, node, node0,
                   saved, streaming, pool, requeued, count, recorder,
                   isHelios2, device_model, sleeps>>

\* converting and saving the buffer: Writer.save, cv2.imwrite, and the
\* colourisers of the heat map
UseBuffer ==
    /\ At("use")
    /\ Call("save", ins.key)
    /\ Advance
    /\ UNCHANGED <<script, tries, sec_count, devices, outcome, node, node0,
                   saved, streaming, pool, held, buffers, obtained, requeued,
                   count, recorder, isHelios2, device_model, sleeps>>

\* device.requeue_buffer(buffer), device.requeue_buffer(buffers)
RequeueBuffer ==
    /\ At("requeue_buffer")
    /\ held' = held \ buffers
    /\ requeued' = requeued + Cardinality(buffers)
    /\ Call("requeue_buffer", "")
    /\ Advance
    /\ UNCHANGED <<script, tries, sec_count, devices, outcome, node, node0,
                   saved, streaming, pool, buffers, obtained, count, recorder,
                   isHelios2, device_model, sleeps>>

\* device.stop_stream(), or the end of "with device.start_stream(...)"
StopStream ==
    /\ At("stop_stream")
    /\ streaming' = FALSE
    /\ Call("stop_stream", "")
    /\ Advance
    /\ UNCHANGED <<script, tries, sec_count, devices, outcome, node, node0,
                   saved, pool, held, buffers, obtained, requeued, count,
                   recorder, isHelios2, device_model, sleeps>>

\* recorder = Recorder(...); recorder.open()
RecorderOpen ==
    /\ At("recorder_open")
    /\ recorder' = "open"
    /\ Call("recorder_open", "")
    /\ Advance
    /\ UNCHANGED <<script, tries, sec_count, devices, outcome, node, node0,
                   saved, streaming, pool, held, buffers, obtained, requeued,
                   count, isHelios2, device_model, sleeps>>

\* for count in range(TOTAL_IMAGES)
ForCount ==
    /\ At("for")
    /\ IF count < TOTAL_IMAGES THEN Advance ELSE Goto(ins.val)
    /\ UNCHANGED <<script, tries, sec_count, devices, outcome, node, node0,
                   saved, streaming, pool, held, buffers, obtained, requeued,
                   count, recorder, isHelios2, device_model, log, sleeps>>

\* recorder.append(buffer)
RecorderAppend ==
    /\ At("recorder_append")
    /\ Call("recorder_append", "")
    /\ Advance
    /\ UNCHANGED <<script, tries, sec_count, devices, outcome, node, node0,
                   saved, streaming, pool, held, buffers, obtained, requeued,
                   count, recorder, isHelios2, device_model, sleeps>>

\* the end of the loop body: the next count
EndFor ==
    /\ At("endfor")
    /\ count' = count + 1
    /\ Goto(ins.val)
    /\ UNCHANGED <<script, tries, sec_count, devices, outcome, node, node0,
                   saved, streaming, pool, held, buffers, obtained, requeued,
                   recorder, isHelios2, device_model, log, sleeps>>

\* recorder.close()
RecorderClose ==
    /\ At("recorder_close")
    /\ recorder' = "closed"
    /\ Call("recorder_close", "")
    /\ Advance
    /\ UNCHANGED <<script, tries, sec_count, devices, outcome, node, node0,
                   saved, streaming, pool, held, buffers, obtained, requeued,
                   count, isHelios2, device_model, sleeps>>

\* system.destroy_device()
DestroyDevice ==
    /\ At("destroy_device")
    /\ Call("destroy_device", "")
    /\ Advance
    /\ UNCHANGED <<script, tries, sec_count, devices, outcome, node, node0,
                   saved, streaming, pool, held, buffers, obtained, requeued,
                   count, recorder, isHelios2, device_model, sleeps>>

\* the script ends normally
EndOfScript ==
    /\ At("return")
    /\ Finish("finished")
    /\ UNCHANGED <<script, tries, sec_count, devices, node, node0, saved,
                   streaming, pool, held, buffers, obtained, requeued, count,
                   recorder, isHelios2, device_model, log, sleeps>>

\* ---- a collaborator call that raises
WriteOps == {"write", "write_max", "write_operating_mode", "restore"}
ConfigWriteOps == WriteOps \ {"restore"}
StreamingOps == {"get_buffer", "use", "recorder_append", "requeue_buffer"}
\* the calls of the arena_api collaborator that may raise
FallibleOps == WriteOps \cup StreamingOps

\* whether a try/except of the script encloses the call: none does
Caught_writes(op) == op \in WriteOps
Caught(op) == FALSE

\* whether the script streams inside "with device.start_stream(...)", whose
\* exit stops the stream also when the block is left by an exception
StopsStreamOnError(s) ==
    s \in {"py_helios_heatmap", "py_save_recorder", "1_acquire_and_extract"}

\* the call at ip raises: the exception leaves the script, through the
\* "with" block when there is one
CallRaises ==
    /\ pc = "run"
    /\ ins.op \in FallibleOps
    /\ IF ins.op \in WriteOps
       THEN Call("write_failed", ins.key)
       ELSE Call("failed", ins.op)
    /\ IF Caught(ins.op)
       THEN Advance /\ UNCHANGED outcome
       ELSE /\ outcome' = "raised"
            /\ pc' = (IF streaming /\ StopsStreamOnError(script)
                      THEN "unwind" ELSE "done")
            /\ UNCHANGED ip
    /\ UNCHANGED <<script, tries, sec_count, devices, node, node0, saved,
                   streaming, pool, held, buffers, obtained, requeued, count,
                   recorder, isHelios2, device_model, sleeps>>

\* the exit of "with device.start_stream(...)" while the exception passes
WithExitOnError ==
    /\ pc = "unwind"
    /\ streaming' = FALSE
    /\ Call("stop_stream", "")
    /\ pc' = "done"
    /\ UNCHANGED <<script, ip, tries, sec_count, devices, outcome, node, node0,
                   saved, pool, held, buffers, obtained, requeued, count,
                   recorder, isHelios2, device_model, sleeps>>

(***************************************************************************)
(* Specifications                                                          *)
(***************************************************************************)
vars ==<<colorVars, heatVars, sessVars>>

InitColor == InitColorCall /\ HeatIdle /\ SessIdle
NextColor == CallColor /\ UNCHANGED <<heatVars, sessVars>>
SpecColor == InitColor /\ [][NextColor]_vars

InitHeat == InitHeatCall /\ ColorIdle /\ SessIdle
NextHeat ==
    \/ BGR_Enter /\ UNCHANGED <<colorVars, sessVars>>
    \/ BGR_Iterate /\ UNCHANGED <<colorVars, sessVars>>
    \/ BGR_Segfault /\ UNCHANGED <<colorVars, sessVars>>
    \/ BGR_Return /\ UNCHANGED <<colorVars, sessVars>>
    \/ RGB_Enter /\ UNCHANGED <<colorVars, sessVars>>
    \/ RGB_Iterate /\ UNCHANGED <<colorVars, sessVars>>
    \/ RGB_Segfault /\ UNCHANGED <<colorVars, sessVars>>
    \/ RGB_Return /\ UNCHANGED <<colorVars, sessVars>>
SpecHeat == InitHeat /\ [][NextHeat]_vars

Init == InitSession /\ ColorIdle /\ HeatIdle
Next ==
    \/ CreateDevice_Empty /\ UNCHANGED <<colorVars, heatVars>>
    \/ SleepOneSecond /\ UNCHANGED <<colorVars, heatVars>>
    \/ NextTry /\ UNCHANGED <<colorVars, heatVars>>
    \/ CreateDevice_Found /\ UNCHANGED <<colorVars, heatVars>>
    \/ NoDevice_Raise /\ UNCHANGED <<colorVars, heatVars>>
    \/ NoDevice_ReturnNone /\ UNCHANGED <<colorVars, heatVars>>
    \/ IfNotDevicesReturn /\ UNCHANGED <<colorVars, heatVars>>
    \/ SelectDevice /\ UNCHANGED <<colorVars, heatVars>>
    \/ ValidateDevice /\ UNCHANGED <<colorVars, heatVars>>
    \/ SaveInitial /\ UNCHANGED <<colorVars, heatVars>>
    \/ WriteNode /\ UNCHANGED <<colorVars, heatVars>>
    \/ StartStream /\ UNCHANGED <<colorVars, heatVars>>
    \/ GetBuffer /\ UNCHANGED <<colorVars, heatVars>>
    \/ UseBuffer /\ UNCHANGED <<colorVars, heatVars>>
    \/ RequeueBuffer /\ UNCHANGED <<colorVars, heatVars>>
    \/ StopStream /\ UNCHANGED <<colorVars, heatVars>>
    \/ RecorderOpen /\ UNCHANGED <<colorVars, heatVars>>
    \/ ForCount /\ UNCHANGED <<colorVars, heatVars>>
    \/ RecorderAppend /\ UNCHANGED <<colorVars, heatVars>>
    \/ EndFor /\ UNCHANGED <<colorVars, heatVars>>
    \/ RecorderClose /\ UNCHANGED <<colorVars, heatVars>>
    \/ DestroyDevice /\ UNCHANGED <<colorVars, heatVars>>
    \/ EndOfScript /\ UNCHANGED <<colorVars, heatVars>>
    \/ CallRaises /\ UNCHANGED <<colorVars, heatVars>>
    \/ WithExitOnError /\ UNCHANGED <<colorVars, heatVars>>
Spec == Init /\ [][Next]_vars

\* the scripts run to their end: the interpreter always takes the next step
FairSpec == Spec /\ WF_vars(Next)

(***************************************************************************)
(* Claims about the colour map (checked under SpecColor)                   *)
(***************************************************************************)
Black == <<0, 0, 0>>

\* C3: get_rgb_colors_of_point_at_distance returns (255,0,0) for z = 0,
\* (0,0,255) for z = 1500, (0,0,0) for z = 1501 and (0,0,0) for z = -1.
C3_EndpointColours ==
    cpc = "ret" =>
        /\ (z_arg = 0 => rgb = <<255, 0, 0>>)
        /\ (z_arg = 1500 => rgb = <<0, 0, 255>>)
        /\ (z_arg = 1501 => rgb = Black)
        /\ (z_arg = -1 => rgb = Black)

C3_Witness == cpc = "ret" /\ z_arg = 1500 /\ rgb = <<0, 0, 255>>

\* C4 as stated: the colour map returns (0,255,0) for z = 375.
C4_GreenAt375 == (cpc = "ret" /\ z_arg = 375) => rgb = <<0, 255, 0>>

\* C4 amended: at z = 375, the first value of the yellow-to-green band, the
\* colour map returns yellow (255,255,0).
C4_YellowAt375 == (cpc = "ret" /\ z_arg = 375) => rgb = <<255, 255, 0>>

C4_Witness == cpc = "ret" /\ z_arg = COLOR_BORDER_YELLOW /\ rgb[1] = RGB_MAX

\* C5: for every integer z in 0..1500 each returned channel is an integer in
\* 0..255; for every integer z < 0 or z > 1500 the result is exactly (0,0,0).
C5_ChannelRange ==
    cpc = "ret" =>
        /\ (z_arg \in 0 .. 1500 => \A k \in 1 .. 3 : rgb[k] \in 0 .. 255)
        /\ ((z_arg < 0 \/ z_arg > 1500) => rgb = Black)

C5_Witness ==
    /\ cpc = "ret"
    /\ z_arg \in 0 .. 1500
    /\ rgb[2] > 0 /\ rgb[2] < 255

(***************************************************************************)
(* Claims about the buffer colourisers (checked under SpecHeat)            *)
(***************************************************************************)
IsDepthBuffer == pixel_format \in DepthFormats
BGRReturned == fpc \in {"rgb_entry", "rgb_loop", "done"}
RGBReturned == fpc = "done"
Pixels == 0 .. (number_of_pixels - 1)
ArrayLen(a) == Cardinality(DOMAIN a)

\* the colour of pixel i: the colour map applied to the scaled signed z word
PixelColour(i) ==
    get_rgb_colors_of_point_at_distance(ScaleZ(AsInt16(pdata[4 * i + 2])))

\* the three bytes of pixel i of an output array, seen as unsigned bytes
Bytes3(a, i) ==
    <<AsUByte(a[3 * i]), AsUByte(a[3 * i + 1]), AsUByte(a[3 * i + 2])>>

\* C6 as stated: for any depth buffer of width w and height h the array each
\* coloriser returns has exactly 3 * w * h byte elements.
C6_TightlyPacked ==
    IsDepthBuffer =>
        /\ (BGRReturned => ArrayLen(array_BGR8_for_jpg) = 3 * width * height)
        /\ (RGBReturned =>
               ArrayLen(array_RGB8_for_ply_coloring) = 3 * width * height)

\* C7: for the same depth buffer and scale, for every pixel i the BGR array
\* and the RGB array agree on byte 3i+1 and have bytes 3i and 3i+2 swapped.
C7_ChannelSwap ==
    (IsDepthBuffer /\ RGBReturned) =>
        \A i \in Pixels :
            /\ array_BGR8_for_jpg[3 * i + 1] = array_RGB8_for_ply_coloring[3 * i + 1]
            /\ array_BGR8_for_jpg[3 * i] = array_RGB8_for_ply_coloring[3 * i + 2]
            /\ array_BGR8_for_jpg[3 * i + 2] = array_RGB8_for_ply_coloring[3 * i]

C7_Witness ==
    /\ IsDepthBuffer /\ RGBReturned
    /\ number_of_pixels >= 2
    /\ \E i \in Pixels : array_BGR8_for_jpg[3 * i] # array_BGR8_for_jpg[3 * i + 2]

\* C8: for every pixel i, in the input buffer's order, the three output bytes
\* at 3i..3i+2 are the colour of the scaled value of 16-bit word 4i+2 (the z
\* channel) of that pixel, in the array's channel order; words 4i, 4i+1 and
\* 4i+3 do not enter, and no pixel is skipped, repeated or reordered.
C8_PixelwiseZColour ==
    IsDepthBuffer =>
        /\ (fpc = "bgr_loop" \/ BGRReturned) =>
              \A i \in Pixels :
                  (fpc = "bgr_loop" /\ i >= loop_count)
                  \/ Bytes3(array_BGR8_for_jpg, i) =
                        <<PixelColour(i)[3], PixelColour(i)[2], PixelColour(i)[1]>>
        /\ (fpc = "rgb_loop" \/ RGBReturned) =>
              \A i \in Pixels :
                  (fpc = "rgb_loop" /\ i >= loop_count)
                  \/ Bytes3(array_RGB8_for_ply_coloring, i) = PixelColour(i)

C8_Witness ==
    /\ IsDepthBuffer /\ RGBReturned
    /\ number_of_pixels >= 2
    /\ PixelColour(0) # PixelColour(1)
    /\ \E i \in Pixels :
          /\ pdata[4 * i + 1] # pdata[4 * i + 2]
          /\ PixelColour(i) # Black

\* C9 as stated: when the buffer's pixel format is not a 4-channel 16-bit
\* depth format the colorisers fail and produce no output array.
C9_RejectsOtherFormats ==
    ~IsDepthBuffer =>
        /\ array_BGR8_for_jpg = <<>>
        /\ array_RGB8_for_ply_coloring = <<>>
        /\ fpc \in {"bgr_entry", "UnsupportedPixelFormat"}

(***************************************************************************)
(* Claims about the sessions (checked under Spec)                          *)
(***************************************************************************)
\* the calls of the log named name
CallsOf(name) == {i \in 1 .. Len(log) : log[i][1] = name}
CreateCalls == Cardinality(CallsOf("create_device"))
\* discovery ended without a device: every create_device call was empty
DiscoveryExhausted ==
    /\ pc \in {"run", "done"}
    /\ \A i \in CallsOf("create_device") : log[i][2] = "empty"
\* no call that needs a device was made
NoDeviceCalls ==
    \A i \in 1 .. Len(log) :
        log[i][1] \notin {"select_device", "write", "start_stream", "destroy_device"}

\* C1 as stated: in every script, when create_device is empty on every call,
\* discovery fails with the 'no device found' error once tries_max attempts
\* are used up: it never returns normally, and no select_device,
\* configuration write, start_stream or destroy_device happens afterwards.
C1_AlwaysRaises ==
    DiscoveryExhausted =>
        /\ pc = "done" /\ outcome = "raised"
        /\ CreateCalls = tries_max
        /\ NoDeviceCalls

\* C1 amended: in every script but py_save_recorder discovery raises the
\* error; py_save_recorder's discovery returns no devices without raising and
\* its entry point returns; in every script no select_device, configuration
\* write, start_stream or destroy_device happens afterwards.
C1_RaisesOrReturnsNone ==
    DiscoveryExhausted =>
        /\ CreateCalls = tries_max
        /\ NoDeviceCalls
        /\ script # "py_save_recorder" => (pc = "done" /\ outcome = "raised")
        /\ script = "py_save_recorder" =>
              \/ pc = "run" /\ ip = 1 /\ outcome = "running"
              \/ pc = "done" /\ outcome = "returned"

C1_Witness ==
    /\ DiscoveryExhausted
    /\ pc = "done"
    /\ script = "py_save_recorder"
    /\ CreateCalls = tries_max_py_save_recorder

\* C2: if create_device is empty on its first k-1 calls and non-empty on call
\* k (1 <= k <= tries_max), the retry loop returns after exactly k calls and
\* makes no further call; if it is always empty, exactly tries_max calls are
\* made before the failure is reported.
C2_ExactAttempts ==
    /\ CreateCalls <= tries_max
    /\ \A i \in CallsOf("create_device") :
          log[i][2] = "found" =>
              /\ i = CreateCalls
              /\ i = tries + 1
              /\ devices
              /\ pc \in {"run", "unwind", "done"}
    /\ (pc \in {"run", "unwind", "done"} /\ ~devices) => CreateCalls = tries_max
    /\ pc \in {"run", "unwind", "done"} => CreateCalls >= 1

C2_Witness ==
    /\ script = "py_acquisition"
    /\ pc = "done" /\ outcome = "finished"
    /\ CreateCalls = 3
    /\ log[3] = <<"create_device", "found">>

\* C10 as stated: in every script, for every node the script writes, the
\* value at the end of an error-free session is the value the node had before
\* the session's first write.
C10_RoundTrip ==
    (pc = "done" /\ outcome = "finished") =>
        \A k \in WrittenKeys(script) : node[k] = node0[k]

(***************************************************************************)
(* Claims about the streaming discipline (checked under Spec)              *)
(***************************************************************************)
ErrorFree == outcome \in {"running", "finished"}
Started == CallsOf("start_stream") # {}
Stopped == CallsOf("stop_stream") # {}

\* C11: in every error-free run of every script each buffer obtained from
\* get_buffer is requeued exactly once before the stream is stopped: no buffer
\* is requeued that is not outstanding, and no buffer is outstanding when the
\* stream stops or when the session ends.
C11_RequeuedExactlyOnce ==
    ErrorFree =>
        /\ held \subseteq 1 .. obtained
        /\ requeued + Cardinality(held) = obtained
        /\ Stopped => (held = {} /\ requeued = obtained)
        /\ pc = "done" => (held = {} /\ requeued = obtained)

C11_Witness ==
    /\ script = "py_acquisition"
    /\ pc = "done" /\ outcome = "finished"
    /\ Stopped
    /\ obtained = number_of_buffers /\ requeued = number_of_buffers
    /\ held = {}

\* C12 as stated: in every script, once start_stream has succeeded, stop_stream
\* is invoked on every exit path, also when get_buffer, a save / convert /
\* append step or requeue_buffer raises mid-streaming: no session ends with the
\* collaborator still streaming.
C12_NeverEndsStreaming ==
    pc = "done" => (~streaming /\ (Started => Stopped))

\* the collaborator call the step makes, when it makes one
Calls(ops) == pc = "run" /\ ins.op \in ops /\ Len(log') = Len(log) + 1

\* C13: every session follows Idle -> Configuring -> Streaming -> Draining ->
\* Idle: a configuration write is made only before start_stream, get_buffer
\* and requeue_buffer only between start_stream and the stream's stop, a
\* restoration write and destroy_device only when the stream is not running
\* and, if it was started, has been stopped.
C13_SessionOrder ==
    [][ /\ Calls(ConfigWriteOps) => (~streaming /\ ~Started)
        /\ Calls({"start_stream"}) => (~streaming /\ ~Started)
        /\ Calls({"get_buffer", "requeue_buffer"}) =>
              (streaming /\ Started /\ ~Stopped)
        /\ Calls({"stop_stream"}) => (streaming /\ Started /\ ~Stopped)
        /\ Calls({"restore", "destroy_device"}) =>
              (~streaming /\ (Started => Stopped))
      ]_vars

C13_Witness ==
    /\ script = "py_helios_heatmap"
    /\ pc = "done" /\ outcome = "finished"
    /\ \E i, j, k, l \in 1 .. Len(log) :
          /\ i < j /\ j < k /\ k < l
          /\ log[i] = <<"start_stream", "">>
          /\ log[j] = <<"stop_stream", "">>
          /\ log[k] = <<"write", "PixelFormat">>
          /\ log[l] = <<"destroy_device", "">>

(***************************************************************************)
(* Claims about rejected node writes (checked under Spec)                  *)
(***************************************************************************)
\* a restoration write was rejected: the only writes after the stream's stop
RestoreRejected == Stopped /\ CallsOf("write_failed") # {}

\* C14 as stated: when writing back a saved value at session end is rejected,
\* the error is not escalated: the remaining saved keys are still written back
\* and the session still reaches destroy_device and finishes normally.
C14_RestoreBestEffort ==
    (pc = "done" /\ RestoreRejected) =>
        /\ outcome = "finished"
        /\ CallsOf("destroy_device") # {}
        /\ \A k \in DOMAIN saved :
              \E i \in CallsOf("write") \cup CallsOf("write_failed") :
                  log[i][2] = k /\ \E j \in CallsOf("stop_stream") : j < i

\* the rejected configuration writes: those made before any start_stream
ConfigWriteRejected ==
    {i \in CallsOf("write_failed") :
        \A j \in CallsOf("start_stream") : i < j}
IsWrite(e) == e[1] = "write"
IsConfigWrite(x) == x.op \in ConfigWriteOps
\* the configuration writes of the script before instruction n
WritesBefore(n) == SelectSeq(SubSeq(Program, 1, n - 1), IsConfigWrite)
\* the last configuration write to key k before instruction n, 0 if none
LastWriteBefore(n, k) ==
    LET js == {j \in 1 .. (n - 1) :
                  IsConfigWrite(Program[j]) /\ Program[j].key = k}
    IN IF js = {} THEN 0 ELSE CHOOSE j \in js : \A m \in js : m <= j

\* C15: configuration writes are applied in the given order and a rejected key
\* surfaces at once: when the k-th configuration write of a script fails,
\* writes 1..k-1 have been applied in order, no write after k and no
\* start_stream is made, and the error is propagated to the caller.
C15_FailedWriteSurfaces ==
    \A i \in ConfigWriteRejected :
        /\ i = Len(log)
        /\ pc = "done" /\ outcome = "raised"
        /\ ~Started /\ ~streaming
        /\ IsConfigWrite(ins) /\ log[i][2] = ins.key
        /\ LET done == SelectSeq(SubSeq(log, 1, i - 1), IsWrite)
               want == WritesBefore(ip)
           IN /\ Len(done) = Len(want)
              /\ \A n \in 1 .. Len(want) : done[n][2] = want[n].key
        /\ \A k \in Keys :
              LET j == LastWriteBefore(ip, k)
              IN IF j = 0 THEN node[k] = node0[k]
                 ELSE /\ Program[j].op = "write" => node[k] = Program[j].val
                      /\ Program[j].op = "write_max" => node[k] = NodeMax(k)

C15_Witness ==
    /\ script = "py_acquisition"
    /\ pc = "done" /\ outcome = "raised"
    /\ ins = SetMax("Width")
    /\ log[Len(log)] = <<"write_failed", "Width">>
    /\ Cardinality(CallsOf("write")) = 4
    /\ node["AcquisitionMode"] = "Continuous"
    /\ node0["AcquisitionMode"] = "SingleFrame"

(***************************************************************************)
(* Claims about device discovery (checked under FairSpec and Spec)         *)
(***************************************************************************)
DiscoveryOver == pc \notin {"try", "sleep"}

\* the sleeps of the retry loop, for any behaviour of the collaborator
SleepAccount ==
    /\ CreateCalls <= tries_max
    /\ sleeps <= tries_max * sleep_time_secs
    /\ pc = "sleep" => sleeps = tries * sleep_time_secs + sec_count
    /\ pc = "try" => sleeps = tries * sleep_time_secs
    /\ \A k \in CallsOf("create_device") :
          log[k][2] = "found" => sleeps = (k - 1) * sleep_time_secs
    /\ (DiscoveryOver /\ ~devices) => sleeps = tries_max * sleep_time_secs

\* C16: the retry loop always terminates: it makes at most tries_max
\* create_device calls, sleeps sleep_time_secs seconds after each empty result
\* (the last one included), so that it sleeps at most tries_max *
\* sleep_time_secs seconds, and exactly (k-1) * sleep_time_secs when the
\* device appears on call k.
C16_RetryTerminates == []SleepAccount /\ <>DiscoveryOver

C16_Witness ==
    /\ script = "py_save_writer_png"
    /\ DiscoveryOver /\ devices
    /\ CreateCalls = 4
    /\ sleeps = 3 * sleep_time_secs

(***************************************************************************)
(* Claims about the depth read by the colourisers (checked under SpecHeat) *)
(***************************************************************************)
\* the z word of pixel i as the colourisers read it
ZRaw(i) == AsInt16(pdata[4 * i + 2])
\* z_raw * scale_z lies outside [0, 1500], compared without rounding
ScaledOutside(i) ==
    \/ ZRaw(i) * scale_z[1] < COLOR_BORDER_RED * scale_z[2]
    \/ ZRaw(i) * scale_z[1] > COLOR_BORDER_BLUE * scale_z[2]
Reversed(c) == <<c[3], c[2], c[1]>>

\* C17 as stated: the colourisers colour black every pixel whose scaled depth
\* z_raw * scale_z lies outside [0, 1500], in particular every pixel whose
\* scaled depth is negative, for any positive scale.
C17_BlackOutsideRange ==
    (IsDepthBuffer /\ RGBReturned) =>
        \A i \in Pixels :
            ScaledOutside(i) =>
                /\ Bytes3(array_BGR8_for_jpg, i) = Black
                /\ Bytes3(array_RGB8_for_ply_coloring, i) = Black

\* the colour of pixel i when its z word is read as an unsigned 16-bit value
UnsignedColour(i) ==
    get_rgb_colors_of_point_at_distance(
        IntOfRatio(pdata[4 * i + 2] * scale_z[1], scale_z[2]))

\* C18 as stated: for the unsigned format Coord3D_ABCY16 every z word w in
\* 0..65535 is coloured as the colour map of the scaled unsigned value of w.
C18_UnsignedZ ==
    (pixel_format = "Coord3D_ABCY16" /\ RGBReturned) =>
        \A i \in Pixels :
            /\ Bytes3(array_RGB8_for_ply_coloring, i) = UnsignedColour(i)
            /\ Bytes3(array_BGR8_for_jpg, i) = Reversed(UnsignedColour(i))

(***************************************************************************)
(* Claims about py_helios_heatmap's device check and py_save_recorder's    *)
(* discovery (checked under Spec)                                          *)
(***************************************************************************)
\* validate_device has returned
Validated == script = "py_helios_heatmap" /\ DiscoveryOver /\ ip > 2
\* the operating mode has been written and not yet restored
ModeConfigured == Validated /\ ip \in 8 .. 16

C20_RecorderReturnsQuietly ==
    (script = "py_save_recorder" /\ DiscoveryOver /\ ~devices) =>
        /\ outcome \in {"running", "returned"}
        /\ pc = "done" => outcome = "returned"
        /\ pc = "run" => ins.op = "if_not_devices_return"
        /\ Len(log) = tries_max_py_save_recorder
        /\ \A i \in 1 .. Len(log) : log[i] = <<"create_device", "empty">>
        /\ ~streaming /\ recorder = "none" /\ node = node0

C20_Witness ==
    /\ script = "py_save_recorder"
    /\ pc = "done" /\ outcome = "returned"
    /\ ~devices
    /\ Len(log) = tries_max_py_save_recorder
    /\ sleeps = tries_max_py_save_recorder * sleep_time_secs

\* the connected device is not a 3D device with current firmware
LacksDepthNode ==
    \/ ~HasNode(device_model, "Scan3dOperatingMode")
    \/ ~HasNode(device_model, "Scan3dCoordinateOffset")

\* C21: in the heat-map example, when the device lacks the Scan3dOperatingMode
\* node or the Scan3dCoordinateOffset node, validate_device ends the run
\* before any write to a device or stream node and before start_stream: the
\* device's configuration is never modified and it is never streamed.
C21_NonDepthDeviceUntouched ==
    (script = "py_helios_heatmap" /\ LacksDepthNode) =>
        /\ node = node0
        /\ ~streaming /\ ~Started
        /\ CallsOf("write") = {} /\ CallsOf("write_failed") = {}
        /\ CallsOf("get_buffer") = {}
        /\ (pc = "run" => ip <= 2)
        /\ (pc = "done" /\ devices) => (outcome = "exited" /\ ip = 2)

C21_Witness ==
    /\ script = "py_helios_heatmap"
    /\ device_model = "HLS003S_old"
    /\ pc = "done" /\ outcome = "exited"
    /\ log[Len(log)] = <<"select_device", "">>

\* the stream and recorder calls of the session, in the order made
IsRecording(e) ==
    e[1] \in {"start_stream", "recorder_open", "get_buffer", "recorder_append",
              "requeue_buffer", "recorder_close", "stop_stream"}
RecordingCalls == SelectSeq(log, IsRecording)
\* the n-th stream or recorder call of a recording of 100 images
RecordingStep(n) ==
    CASE n = 1 -> "start_stream"
      [] n = 2 -> "recorder_open"
      [] n \in 3 .. (3 * 100 + 2) ->
            (CASE (n - 3) % 3 = 0 -> "get_buffer"
               [] (n - 3) % 3 = 1 -> "recorder_append"
               [] (n - 3) % 3 = 2 -> "requeue_buffer")
      [] n = 3 * 100 + 3 -> "recorder_close"
      [] n = 3 * 100 + 4 -> "stop_stream"
      [] OTHER -> "nothing"

PoolOf(s) ==
    CASE s = "py_acquisition" -> number_of_buffers
      [] s = "py_save_recorder" -> recorder_buffers
      [] s = "py_helios_heatmap" -> heatmap_buffers
      [] OTHER -> start_stream_default

\* C23: in every script and every reachable state the number of buffers the
\* caller holds (obtained and not yet requeued) never exceeds the pool size
\* passed to start_stream (at most 20 of 20 in py_acquisition, 1 of 100 in
\* py_save_recorder, 1 of 1 in py_helios_heatmap), and get_buffer is never
\* called while the caller already holds the whole pool.
C23_HeldWithinPool ==
    /\ Cardinality(held) <= pool
    /\ Started => pool = PoolOf(script)
    /\ script = "py_acquisition" => Cardinality(held) <= 20
    /\ script \in {"py_save_recorder", "py_helios_heatmap"} =>
          Cardinality(held) <= 1
    /\ (pc = "run" /\ ins.op = "get_buffer") =>
          /\ streaming
          /\ held = {}
          /\ Cardinality(held) + ins.val <= pool

C23_Witness ==
    /\ script = "py_acquisition"
    /\ streaming
    /\ pool = 20
    /\ Cardinality(held) = 20
    /\ log[Len(log)] = <<"get_buffer", "">>

(***************************************************************************)
(* Claims about the colour map's bands (checked under SpecColor)           *)
(***************************************************************************)
\* the colour of the next integer depth
NextColour == get_rgb_colors_of_point_at_distance(z_arg + 1)
\* channel c does not decrease / increase from z to z + 1, the others are kept
OnlyRises(c) ==
    /\ rgb[c] <= NextColour[c]
    /\ \A o \in (1 .. 3) \ {c} : rgb[o] = NextColour[o]
OnlyFalls(c) ==
    /\ rgb[c] >= NextColour[c]
    /\ \A o \in (1 .. 3) \ {c} : rgb[o] = NextColour[o]

\* C24: for every integer z in 0..1500 the colour is fully saturated (a
\* channel equals 255 and a channel equals 0), and within each band exactly
\* one channel varies, monotonically in z: green rises on [0,375), red falls
\* on [375,750), blue rises on [750,1125), green falls on [1125,1500].
C24_SaturatedMonotone ==
    (cpc = "ret" /\ 0 <= z_arg /\ z_arg <= 1500) =>
        /\ \E c \in 1 .. 3 : rgb[c] = 255
        /\ \E c \in 1 .. 3 : rgb[c] = 0
        /\ (0 <= z_arg /\ z_arg + 1 < 375) => OnlyRises(2)
        /\ (375 <= z_arg /\ z_arg + 1 < 750) => OnlyFalls(1)
        /\ (750 <= z_arg /\ z_arg + 1 < 1125) => OnlyRises(3)
        /\ (1125 <= z_arg /\ z_arg + 1 <= 1500) => OnlyFalls(2)

C24_Witness ==
    /\ cpc = "ret" /\ z_arg = 500
    /\ rgb[1] > NextColour[1]
    /\ rgb[1] \notin {0, 255}

(***************************************************************************)
(* Claims about the stored bytes (checked under SpecHeat)                  *)
(***************************************************************************)
\* element e of a c_byte array holds channel value c of 0..255
StoredAs(e, c) ==
    /\ e \in -128 .. 127
    /\ (e - c) % 256 = 0
    /\ (c >= 128 => e = c - 256) /\ (c < 128 => e = c)
    /\ (e + 256) % 256 = c

\* C25: each channel value c in 0..255 computed for a pixel is stored in the
\* output array's signed 8-bit element as the value congruent to c modulo 2^8
\* (255 as -1, 128..255 as c - 256), so that the stored byte read back as
\* unsigned equals c, for every pixel and channel.
C25_SignedStorage ==
    (IsDepthBuffer /\ RGBReturned) =>
        \A i \in Pixels : \A ch \in 1 .. 3 :
            /\ PixelColour(i)[ch] \in 0 .. 255
            /\ StoredAs(array_RGB8_for_ply_coloring[3 * i + ch - 1],
                        PixelColour(i)[ch])
            /\ StoredAs(array_BGR8_for_jpg[3 * i + 3 - ch],
                        PixelColour(i)[ch])

C25_Witness ==
    /\ IsDepthBuffer /\ RGBReturned
    /\ \E i \in Pixels :
          /\ PixelColour(i)[1] = 255
          /\ array_BGR8_for_jpg[3 * i + 2] = -1
          /\ PixelColour(i)[2] \in 128 .. 254
          /\ array_BGR8_for_jpg[3 * i + 1] = PixelColour(i)[2] - 256
====
